---- MODULE Spec2Model ----
(***************************************************************************)
(* A model of the three command-line tools of thumbnail_generator:         *)
(*   - the Compositor        (thumbnail_gen.py),                           *)
(*   - the Matcher/Uploader  (update_youtube_videos.py),                   *)
(*   - the Playlist Exporter (get_youtube_video_ids.py).                   *)
(* Each tool is a short batch run; each has its own specification          *)
(* (SpecCompositor, SpecUploader, SpecRetry, SpecExporter) over its own    *)
(* variables, the other tools' variables staying idle.                     *)
(*                                                                         *)
(* Strings the code parses or formats (range arguments, titles, file       *)
(* names) are sequences of one-character strings; an optional value        *)
(* (Python's None) is the empty sequence <<>>, a present value v is <<v>>. *)
(***************************************************************************)
EXTENDS Integers, Sequences, FiniteSets, TLC

\* ------------------------------------------------------------------ bounds

\* Largest part number of the enumerated inputs.
MaxPart == 3
\* Largest --workers value of the enumerated inputs.
MaxWorkers == 3

\* ----------------------------------------------------------- optional values

None == <<>>
Some(v) == <<v>>
IsNone(o) == o = <<>>
\* Python truthiness of an Optional[int]: None and 0 are both falsy.
TruthyInt(o) == o # <<>> /\ o[1] # 0
\* Python truthiness of an optional non-empty object (a tuple, a Path, a str).
TruthyObj(o) == o # <<>>

\* ------------------------------------------------------------------ strings

DigitChars == {"0", "1", "2", "3", "4", "5", "6", "7", "8", "9"}

DigitVal(c) ==
    CASE c = "0" -> 0 [] c = "1" -> 1 [] c = "2" -> 2 [] c = "3" -> 3
      [] c = "4" -> 4 [] c = "5" -> 5 [] c = "6" -> 6 [] c = "7" -> 7
      [] c = "8" -> 8 [] c = "9" -> 9

DigitChar(d) == CHOOSE c \in DigitChars : DigitVal(c) = d

\* f"{n:01d}" for n >= 0: the decimal digits, at least one, no padding.
RECURSIVE FormatInt(_)
FormatInt(n) ==
    IF n < 10 THEN <<DigitChar(n)>>
    ELSE FormatInt(n \div 10) \o <<DigitChar(n % 10)>>

\* \d+ : one or more digits.
IsDigits(s) == Len(s) > 0 /\ \A i \in 1..Len(s) : s[i] \in DigitChars

\* int(s) for a string of digits: leading zeros do not count.
RECURSIVE ParseInt(_)
ParseInt(s) ==
    IF Len(s) = 0 THEN 0
    ELSE 10 * ParseInt(SubSeq(s, 1, Len(s) - 1)) + DigitVal(s[Len(s)])

\* str.split(sep) for a one-character separator: the pieces between the
\* separators, empty pieces included.
RECURSIVE Split(_, _)
Split(s, sep) ==
    IF \A i \in 1..Len(s) : s[i] # sep THEN <<s>>
    ELSE LET k == CHOOSE i \in 1..Len(s) :
                      s[i] = sep /\ \A j \in 1..(i - 1) : s[j] # sep
         IN  <<SubSeq(s, 1, k - 1)>> \o Split(SubSeq(s, k + 1, Len(s)), sep)

\* str.lower() on the letters the patterns name.
LowerChar(c) ==
    CASE c = "P" -> "p" [] c = "A" -> "a" [] c = "R" -> "r" [] c = "T" -> "t"
      [] c = "H" -> "h" [] c = "U" -> "u" [] c = "M" -> "m" [] c = "B" -> "b"
      [] c = "N" -> "n" [] c = "I" -> "i" [] c = "L" -> "l" [] c = "J" -> "j"
      [] c = "G" -> "g" [] c = "E" -> "e"
      [] OTHER -> c

Lower(s) == [i \in 1..Len(s) |-> LowerChar(s[i])]

\* range(a, b) as a list.
PyRange(a, b) == [i \in 1..(IF b > a THEN b - a ELSE 0) |-> a + i - 1]

\* ------------------------------------------------------------------- state

VARIABLES
    \* --- the process (each tool is one process)
    argv,         \* the command line and the environment the run reads
    args,         \* the parsed namespace
    pc,           \* position of main()
    log,          \* log records, in emission order
    exit_status,  \* None while running, Some(code) once the process ended
    \* --- Compositor (thumbnail_gen.py)
    parts,        \* the list of parts to render
    idx,          \* sequential loop: index of the next part
    outputs,      \* list of <<part, path>>
    paths,        \* the reported list
    task,         \* worker pool: state of the future of parts[i]
    yielded,      \* worker pool: the futures as_completed has yielded, in order
    pending_exc,  \* the exception propagating out of the with block
    cmds,         \* the magick commands run, in start order
    files,        \* output files written
    failed,       \* history: the parts whose rendering invocation failed
    late,         \* history: the work items started after the with block was left
    \* --- records (Matcher/Uploader and Exporter)
    videos,       \* the list of video records
    json_out,     \* the JSON file written: None, or Some(list of records)
    \* --- Matcher/Uploader (update_youtube_videos.py)
    thumbnail_map,\* part number -> thumbnail path, from the directory scan
    vi,           \* upload loop: index of the next record
    log_msgs,     \* upload loop: one outcome per record
    call,         \* update_video_thumbnail: the arguments of the call in progress
    attempt,      \* update_video_thumbnail: the loop variable
    result,       \* update_video_thumbnail: "none", "running", "True" or "raised"
    raised,       \* update_video_thumbnail: None, or Some(n): the error of attempt n is raised
    n_calls,      \* history: upload attempts of the call in progress
    n_delays,     \* history: time.sleep calls of the call in progress
    slept,        \* history: time slept in the call in progress
    uploads,      \* history: every thumbnails().set attempt, in order
    \* --- Playlist Exporter (get_youtube_video_ids.py)
    private_ids,     \* ids whose listed title was "Private Video"
    next_page_token, \* None, or Some(token) of the page to fetch next
    chunk_i,         \* the loop variable i of the batched lookup
    api_calls        \* history: every API request executed, with its outcome

procVars == <<argv, args, pc, log, exit_status>>
compVars == <<parts, idx, outputs, paths, task, yielded, pending_exc, cmds, files,
              failed, late>>

dataVars == <<videos, json_out>>
retryVars == <<call, attempt, result, raised, n_calls, n_delays, slept, uploads>>
upVars == <<thumbnail_map, vi, log_msgs>>

expVars == <<private_ids, next_page_token, chunk_i, api_calls>>

vars == <<procVars, compVars, dataVars, upVars, retryVars, expVars>>

\* What the Compositor never touches.
nonCompVars == <<dataVars, upVars, retryVars, expVars>>

LogRec(level, msg, part, text) ==
    [level |-> level, msg |-> msg, part |-> part, text |-> text]

\* ------------------------------------------------- Compositor: pure functions

OUTDIR == "thumbnails"

ThumbPrefix ==
    <<"t", "h", "u", "m", "b", "n", "a", "i", "l", "_", "p", "a", "r", "t", "_">>

\* Path.as_posix() of outdir / name.
as_posix(dir, name) == <<dir, "/">> \o name

\* part_str of generate_thumbnail.
part_str(part) == IF part # None THEN FormatInt(part[1]) ELSE <<>>

\* The output file of generate_thumbnail.
OutputName(part, no_part_label) ==
    IF no_part_label THEN <<"t", "h", "u", "m", "b", "n", "a", "i", "l", ".", "p", "n", "g">>
    ELSE ThumbPrefix \o part_str(part) \o <<".", "p", "n", "g">>

OutputPath(part, no_part_label) == as_posix(OUTDIR, OutputName(part, no_part_label))

\* The magick command of generate_thumbnail, by the arguments that vary: the
\* "-annotate +40+30 PART <n>" text when labelled, and the output file last.
MagickCmd(part, no_part_label) ==
    [annotate |-> IF ~no_part_label
                  THEN Some(<<"P", "A", "R", "T", " ">> \o part_str(part))
                  ELSE None,
     output   |-> OutputPath(part, no_part_label)]

\* Faulty variant of parse_range: END taken as exclusive, range(START, END).
parse_range_exclusive(r) ==
    LET pieces == Split(r, "-")
    IN  IF Len(pieces) = 2 /\ IsDigits(pieces[1]) /\ IsDigits(pieces[2])
        THEN [ok |-> TRUE,
              val |-> PyRange(ParseInt(pieces[1]), ParseInt(pieces[2]))]
        ELSE [ok |-> FALSE, val |-> <<>>]

\* parse_range: "START-END" to range(START, END + 1); anything else is an
\* argparse.ArgumentTypeError.
parse_range(r) ==
    LET pieces == Split(r, "-")
    IN  IF Len(pieces) = 2 /\ IsDigits(pieces[1]) /\ IsDigits(pieces[2])
        THEN [ok |-> TRUE,
              val |-> PyRange(ParseInt(pieces[1]), ParseInt(pieces[2]) + 1)]
        ELSE [ok |-> FALSE, val |-> <<>>]

\* The sort key of main: (p[0] is None, p[0] or 0).
SortKey(p) == <<IF p[1] = None THEN 1 ELSE 0, IF TruthyInt(p[1]) THEN p[1][1] ELSE 0>>

KeyLess(k1, k2) == k1[1] < k2[1] \/ (k1[1] = k2[1] /\ k1[2] < k2[2])

\* Insert x after the last element whose key is not greater (stable).
RECURSIVE InsertSorted(_, _)
InsertSorted(s, x) ==
    IF Len(s) = 0 THEN <<x>>
    ELSE IF KeyLess(SortKey(x), SortKey(s[Len(s)]))
         THEN InsertSorted(SubSeq(s, 1, Len(s) - 1), x) \o <<s[Len(s)]>>
         ELSE s \o <<x>>

\* Faulty variant of SortOutputs: the list is reported in completion order.
SortOutputs_unsorted(s) == s

\* list.sort(key=...): a stable sort by SortKey.
RECURSIVE SortOutputs(_)
SortOutputs(s) ==
    IF Len(s) = 0 THEN <<>>
    ELSE InsertSorted(SortOutputs(SubSeq(s, 1, Len(s) - 1)), s[Len(s)])

\* ------------------------------------------------------ Compositor: inputs

RangeArg(a, b) == FormatInt(a) \o <<"-">> \o FormatInt(b)

\* --range values: every START-END over the part numbers, and malformed ones.
RangeArgs ==
    {RangeArg(a, b) : a \in 0..MaxPart, b \in 0..MaxPart}
    \cup {RangeArg(9, 10)}
    \cup {<<"1">>, <<"1", "-", "2", "-", "3">>, <<"-", "1", "-", "2">>, <<"a", "-", "b">>}

CompArgv ==
    [part          : {None} \cup {Some(n) : n \in 0..MaxPart},
     range         : {None} \cup {Some(r) : r \in RangeArgs},
     no_part_label : BOOLEAN,
     workers       : 0..MaxWorkers,
     base_exists   : BOOLEAN]

\* What a rendering invocation can do: exit 0, exit non-zero
\* (subprocess.CalledProcessError), or fail to start (OSError).
RenderOutcomes == {"ok", "CalledProcessError", "OSError"}

CompIdle ==
    /\ parts = <<>> /\ idx = 1 /\ outputs = <<>> /\ paths = <<>>
    /\ task = <<>> /\ yielded = <<>> /\ pending_exc = None
    /\ cmds = <<>> /\ files = {} /\ failed = {} /\ late = {}

ProcStart ==
    /\ args = None /\ log = <<>> /\ exit_status = None

DataIdle == videos = <<>> /\ json_out = None

RetryIdle ==
    /\ call = None /\ attempt = 0 /\ result = "none" /\ raised = None
    /\ n_calls = 0 /\ n_delays = 0 /\ slept = 0 /\ uploads = <<>>

UpIdle == thumbnail_map = <<>> /\ vi = 1 /\ log_msgs = <<>>

ExpIdle ==
    /\ private_ids = <<>> /\ next_page_token = None /\ chunk_i = 0
    /\ api_calls = <<>>

InitCompositor ==
    /\ argv \in CompArgv
    /\ pc = "parse_args"
    /\ ProcStart
    /\ CompIdle
    /\ DataIdle /\ UpIdle /\ RetryIdle /\ ExpIdle

\* ----------------------------------------------------- Compositor: actions

Exit(code) == /\ exit_status' = Some(code) /\ pc' = "exited"

\* argparse: --part / --range / --no-part-label form a required mutually
\* exclusive group; --range goes through parse_range. Any violation is a usage
\* error: exit status 2 from parse_args.
CompFlagsGiven(a) ==
    (IF a.part # None THEN 1 ELSE 0) + (IF a.range # None THEN 1 ELSE 0)
    + (IF a.no_part_label THEN 1 ELSE 0)

CompUsageError(a) ==
    \/ CompFlagsGiven(a) # 1
    \/ a.range # None /\ ~parse_range(a.range[1]).ok

C_ParseArgs ==
    /\ UNCHANGED nonCompVars
    /\ pc = "parse_args"
    /\ IF CompUsageError(argv)
       THEN /\ log' = Append(log, LogRec("ERROR", "usage", None, None))
            /\ Exit(2)
            /\ UNCHANGED args
       ELSE /\ args' = Some([part          |-> argv.part,
                             range         |-> IF argv.range # None
                                               THEN Some(parse_range(argv.range[1]).val)
                                               ELSE None,
                             no_part_label |-> argv.no_part_label,
                             workers       |-> argv.workers])
            /\ pc' = "check_base"
            /\ UNCHANGED <<log, exit_status>>
    /\ UNCHANGED <<argv, compVars>>

\* main, lines 138-142: the base image must exist; the output directory is made.
C_CheckBase ==
    /\ UNCHANGED nonCompVars
    /\ pc = "check_base"
    /\ IF ~argv.base_exists
       THEN /\ log' = Append(log, LogRec("ERROR", "Base image not found", None, None))
            /\ Exit(1)
       ELSE /\ pc' = "build_parts"
            /\ UNCHANGED <<log, exit_status>>
    /\ UNCHANGED <<argv, args, compVars>>

\* main, lines 144-153: parts = [None] | list([args.part] if args.part else
\* args.range); list(None) is a TypeError, uncaught. Then the choice between
\* the sequential loop and the worker pool.
BuildParts(a) ==
    IF a.no_part_label THEN [ok |-> TRUE, val |-> <<None>>]
    ELSE IF TruthyInt(a.part) THEN [ok |-> TRUE, val |-> <<a.part>>]
    ELSE IF a.range # None
         THEN [ok |-> TRUE, val |-> [i \in 1..Len(a.range[1]) |-> Some(a.range[1][i])]]
         ELSE [ok |-> FALSE, val |-> <<>>]

Sequential(a, ps) == a.workers <= 1 \/ Len(ps) <= 1

C_BuildParts ==
    /\ UNCHANGED nonCompVars
    /\ pc = "build_parts"
    /\ LET b == BuildParts(args[1])
       IN  IF ~b.ok
           THEN /\ log' = Append(log, LogRec("ERROR", "Traceback: TypeError", None, None))
                /\ Exit(1)
                /\ UNCHANGED parts
           ELSE /\ parts' = b.val
                /\ pc' = IF Sequential(args[1], b.val) THEN "seq_loop" ELSE "submit"
                /\ UNCHANGED <<log, exit_status>>
    /\ UNCHANGED <<argv, args, idx, outputs, paths, task, yielded, pending_exc,
                   cmds, files, failed, late>>

\* One iteration of the sequential loop, lines 154-166: generate_thumbnail
\* builds the command and run() executes it. A non-zero exit is logged by
\* run() and ends the process with status 1; a failure to start the tool is
\* not caught anywhere.
C_SeqRender(outcome) ==
    /\ UNCHANGED nonCompVars
    /\ pc = "seq_loop"
    /\ idx <= Len(parts)
    /\ LET part == parts[idx]
           npl  == args[1].no_part_label
       IN  /\ cmds' = Append(cmds, MagickCmd(part, npl))
           /\ CASE outcome = "ok" ->
                     /\ files' = files \cup {OutputPath(part, npl)}
                     /\ outputs' = Append(outputs, <<part, OutputPath(part, npl)>>)
                     /\ idx' = idx + 1
                     /\ UNCHANGED <<pc, log, exit_status, failed>>
                [] outcome = "CalledProcessError" ->
                     /\ log' = Append(log, LogRec("ERROR",
                                   "Error running ImageMagick command", None, None))
                     /\ Exit(1)
                     /\ failed' = failed \cup {part}
                     /\ UNCHANGED <<files, outputs, idx>>
                [] outcome = "OSError" ->
                     /\ log' = Append(log, LogRec("ERROR", "Traceback: OSError", None, None))
                     /\ Exit(1)
                     /\ failed' = failed \cup {part}
                     /\ UNCHANGED <<files, outputs, idx>>
    /\ UNCHANGED <<argv, args, parts, paths, task, yielded, pending_exc, late>>

C_SeqDone ==
    /\ UNCHANGED nonCompVars
    /\ pc = "seq_loop"
    /\ idx > Len(parts)
    /\ pc' = "report"
    /\ UNCHANGED <<argv, args, log, exit_status, compVars>>

\* Lines 170-184: one future per part, submitted in the order of parts.
C_Submit ==
    /\ UNCHANGED nonCompVars
    /\ pc = "submit"
    /\ task' = [i \in 1..Len(parts) |-> "pending"]
    /\ pc' = "as_completed"
    /\ UNCHANGED <<argv, args, log, exit_status, parts, idx, outputs, paths,
                   yielded, pending_exc, cmds, files, failed, late>>

Running == {i \in DOMAIN task : task[i] = "running"}
Finished == {i \in DOMAIN task : task[i] \in {"ok", "SystemExit", "OSError"}}
Yielded == {yielded[k] : k \in DOMAIN yielded}

\* A worker thread takes the next queued work item (the queue is FIFO, at most
\* max_workers threads). Work items queued before the with block is left are
\* still run by shutdown(wait=True).
C_TaskStart(i) ==
    /\ UNCHANGED nonCompVars
    /\ pc \in {"as_completed", "shutdown"}
    /\ i \in DOMAIN task
    /\ task[i] = "pending"
    /\ \A j \in 1..(i - 1) : task[j] # "pending"
    /\ Cardinality(Running) < args[1].workers
    /\ task' = [task EXCEPT ![i] = "running"]
    /\ cmds' = Append(cmds, MagickCmd(parts[i], args[1].no_part_label))
    /\ late' = IF pc = "shutdown" THEN late \cup {i} ELSE late
    /\ UNCHANGED <<procVars, parts, idx, outputs, paths, yielded, pending_exc, files,
                   failed>>

\* The work item ends. run() turns a non-zero exit into a logged error and
\* sys.exit(1) inside the worker thread: the future then holds SystemExit.
C_TaskFinish(i, outcome) ==
    /\ UNCHANGED nonCompVars
    /\ pc \in {"as_completed", "shutdown"}
    /\ i \in DOMAIN task
    /\ task[i] = "running"
    /\ CASE outcome = "ok" ->
              /\ files' = files \cup {OutputPath(parts[i], args[1].no_part_label)}
              /\ task' = [task EXCEPT ![i] = "ok"]
              /\ UNCHANGED <<log, failed>>
         [] outcome = "CalledProcessError" ->
              /\ log' = Append(log, LogRec("ERROR",
                            "Error running ImageMagick command", None, None))
              /\ task' = [task EXCEPT ![i] = "SystemExit"]
              /\ failed' = failed \cup {parts[i]}
              /\ UNCHANGED files
         [] outcome = "OSError" ->
              /\ task' = [task EXCEPT ![i] = "OSError"]
              /\ failed' = failed \cup {parts[i]}
              /\ UNCHANGED <<files, log>>
    /\ UNCHANGED <<argv, args, pc, exit_status, parts, idx, outputs, paths,
                   yielded, pending_exc, cmds, late>>

\* One iteration of the as_completed loop, lines 186-192. fut.result() returns
\* the path or re-raises what the work item raised; "except Exception" catches
\* OSError (logs the part, sys.exit(1)) and does not catch SystemExit, which is
\* a BaseException. Either way SystemExit leaves the with block.
C_Collect(i) ==
    /\ UNCHANGED nonCompVars
    /\ pc = "as_completed"
    /\ i \in Finished \ Yielded
    /\ yielded' = Append(yielded, i)
    /\ CASE task[i] = "ok" ->
              /\ outputs' = Append(outputs,
                     <<parts[i], OutputPath(parts[i], args[1].no_part_label)>>)
              /\ UNCHANGED <<pc, log, pending_exc>>
         [] task[i] = "SystemExit" ->
              /\ pending_exc' = Some("SystemExit")
              /\ pc' = "shutdown"
              /\ UNCHANGED <<log, outputs>>
         [] task[i] = "OSError" ->
              /\ log' = Append(log, LogRec("ERROR",
                            "Error generating thumbnail for part", parts[i], None))
              /\ pending_exc' = Some("SystemExit")
              /\ pc' = "shutdown"
              /\ UNCHANGED outputs
    /\ UNCHANGED <<argv, args, exit_status, parts, idx, paths, task, cmds, files,
                   failed, late>>

\* The loop ended normally: every future was yielded, the with block is left.
C_PoolDone ==
    /\ UNCHANGED nonCompVars
    /\ pc = "as_completed"
    /\ Yielded = DOMAIN task
    /\ pc' = "report"
    /\ UNCHANGED <<argv, args, log, exit_status, compVars>>

\* Faulty variant of C_ShutdownExit: the with block is left without waiting for
\* the work items still queued or running.
C_ShutdownExit_nowait ==
    /\ UNCHANGED nonCompVars
    /\ pc = "shutdown"
    /\ Exit(1)
    /\ UNCHANGED <<argv, args, log, compVars>>

\* ThreadPoolExecutor.__exit__ is shutdown(wait=True): SystemExit reaches the
\* top only when every submitted work item has finished.
C_ShutdownExit ==
    /\ UNCHANGED nonCompVars
    /\ pc = "shutdown"
    /\ Finished = DOMAIN task
    /\ Exit(1)
    /\ UNCHANGED <<argv, args, log, compVars>>

RECURSIVE LogPaths(_)
LogPaths(ps) ==
    IF Len(ps) = 0 THEN <<>>
    ELSE <<LogRec("INFO", "path", None, Some(ps[1]))>> \o LogPaths(Tail(ps))

\* Lines 193-199: sort by part, report, and main returns None (status 0).
ReportPaths(outs) == LET sorted == SortOutputs(outs)
                     IN  [i \in 1..Len(sorted) |-> sorted[i][2]]

C_Report ==
    /\ UNCHANGED nonCompVars
    /\ pc = "report"
    /\ outputs' = SortOutputs(outputs)
    /\ paths' = ReportPaths(outputs)
    /\ log' = log \o <<LogRec("INFO", "Generated thumbnails:", None, None)>>
                  \o LogPaths(ReportPaths(outputs))
    /\ Exit(0)
    /\ UNCHANGED <<argv, args, parts, idx, task, yielded, pending_exc, cmds, files,
                   failed, late>>

NextCompositor ==
    \/ C_ParseArgs
    \/ C_CheckBase
    \/ C_BuildParts
    \/ \E o \in RenderOutcomes : C_SeqRender(o)
    \/ C_SeqDone
    \/ C_Submit
    \/ \E i \in DOMAIN task : C_TaskStart(i)
    \/ \E i \in DOMAIN task, o \in RenderOutcomes : C_TaskFinish(i, o)
    \/ \E i \in DOMAIN task : C_Collect(i)
    \/ C_PoolDone
    \/ C_ShutdownExit
    \/ C_Report

SpecCompositor == InitCompositor /\ [][NextCompositor]_vars

\* ------------------------------------------------------ Compositor: claims

\* Part numbers the enumerated ranges name.
PartDomain == 0..(MaxPart + 7)

\* <outdir>/thumbnail_part_<N>.png
ExpectedPath(n) == <<OUTDIR, "/">> \o ThumbPrefix \o FormatInt(n) \o <<".", "p", "n", "g">>

\* The run was given --range a-b alone, and the base image exists.
RangeRun(a, b) ==
    /\ argv.range = Some(RangeArg(a, b))
    /\ argv.part = None
    /\ ~argv.no_part_label
    /\ argv.base_exists

PoolMode == task # <<>>

\* C1: in range mode with START <= END, whatever the worker count, a run in
\* which no rendering invocation failed ends with status 0 having run exactly
\* END-START+1 commands and written exactly the files thumbnail_part_<N>.png
\* for N in START..END; the reported paths are that same set in the sequential
\* and in the worker-pool path.
C1_RangeProducesAllParts ==
    (pc = "exited" /\ failed = {})
    => \A a, b \in PartDomain :
          (RangeRun(a, b) /\ a <= b)
          => /\ exit_status = Some(0)
             /\ files = {ExpectedPath(n) : n \in a..b}
             /\ Cardinality(files) = b - a + 1
             /\ Len(cmds) = b - a + 1
             /\ Len(paths) = b - a + 1
             /\ {paths[i] : i \in DOMAIN paths} = files

\* A worker-pool run over 1-3 that ended well with its three files.
C1_Witness ==
    /\ pc = "exited" /\ exit_status = Some(0)
    /\ RangeRun(1, 3) /\ PoolMode /\ argv.workers = 2
    /\ Cardinality(files) = 3

\* C2: whatever order the tasks complete in, the list reported by a successful
\* run is in ascending part order: entry i is the path of part START+i-1. The
\* sequential mode reports the same list.
C2_ReportSortedByPart ==
    (pc = "exited" /\ exit_status = Some(0))
    => \A a, b \in PartDomain :
          (RangeRun(a, b) /\ a <= b)
          => paths = [i \in 1..(b - a + 1) |-> ExpectedPath(a + i - 1)]

\* A successful worker-pool run over 1-3 whose futures were yielded 3, 1, 2.
C2_Witness ==
    /\ pc = "exited" /\ exit_status = Some(0)
    /\ RangeRun(1, 3) /\ PoolMode
    /\ yielded = <<3, 1, 2>>
    /\ paths = <<ExpectedPath(1), ExpectedPath(2), ExpectedPath(3)>>

ErrorNaming(p) ==
    \E k \in DOMAIN log : log[k].level = "ERROR" /\ log[k].part = p

Reported == \E k \in DOMAIN log : log[k].msg = "Generated thumbnails:"

\* The number of commands run for part p.
RunsOf(p) ==
    Cardinality({k \in DOMAIN cmds :
                    cmds[k] = MagickCmd(p, args # None /\ args[1].no_part_label)})

\* C3: in both modes, when the rendering invocation of a part fails, an error
\* naming a failed part is reported, the run ends with a non-zero status, the
\* "Generated thumbnails" report is never produced and no failed invocation is
\* run again.
C3_FailureNamesPart ==
    (pc = "exited" /\ failed # {})
    => /\ \E p \in failed : ErrorNaming(p)
       /\ exit_status # Some(0)
       /\ ~Reported
       /\ \A p \in failed : RunsOf(p) = 1

\* What the code does keep of C3: a non-zero status, no report, no retry.
C3_FailureIsFatal ==
    (pc = "exited" /\ failed # {})
    => /\ exit_status = Some(1)
       /\ ~Reported
       /\ \A p \in failed : RunsOf(p) = 1

\* The run was given --part n alone, and the base image exists.
PartRun(n) ==
    /\ argv.part = Some(n)
    /\ argv.range = None
    /\ ~argv.no_part_label
    /\ argv.base_exists

\* The run was given --no-part-label alone, and the base image exists.
UnlabeledRun ==
    /\ argv.no_part_label
    /\ argv.part = None
    /\ argv.range = None
    /\ argv.base_exists

\* <outdir>/thumbnail.png
UnlabeledPath ==
    <<OUTDIR, "/", "t", "h", "u", "m", "b", "n", "a", "i", "l", ".", "p", "n", "g">>

\* The label "PART <N>".
PartLabel(n) == <<"P", "A", "R", "T", " ">> \o FormatInt(n)

\* One command was run, it wrote the one file f, and it carried the label ann
\* (None: no annotation at all); the run ended with status 0 reporting f.
OneRendering(f, ann) ==
    /\ exit_status = Some(0)
    /\ Len(cmds) = 1
    /\ cmds[1].output = f
    /\ cmds[1].annotate = ann
    /\ files = {f}
    /\ paths = <<f>>

\* C11: with --part N, for every N >= 0, a run in which no rendering
\* invocation failed ends with status 0 having run exactly one command, which
\* carries the label "PART <N>" and wrote exactly thumbnail_part_<N>.png; with
\* --no-part-label it ran exactly one command, without annotation, and wrote
\* exactly thumbnail.png.
C11_OneImagePerSinglePart ==
    (pc = "exited" /\ failed = {})
    => /\ \A n \in 0..MaxPart :
             PartRun(n) => OneRendering(ExpectedPath(n), Some(PartLabel(n)))
       /\ UnlabeledRun => OneRendering(UnlabeledPath, None)

\* What the code does keep of C11: every N >= 1, and the unlabeled mode.
C11_OneImagePerNonZeroPart ==
    (pc = "exited" /\ failed = {})
    => /\ \A n \in 1..MaxPart :
             PartRun(n) => OneRendering(ExpectedPath(n), Some(PartLabel(n)))
       /\ UnlabeledRun => OneRendering(UnlabeledPath, None)

\* --part 0 never reaches a rendering invocation: list(None) raises.
C11_PartZeroRendersNothing ==
    (pc = "exited" /\ PartRun(0))
    => /\ exit_status = Some(1)
       /\ cmds = <<>>
       /\ files = {}

\* The command and the output file of the work item or loop iteration of
\* parts[i].
CmdOf(i) == MagickCmd(parts[i], args[1].no_part_label)

FileOf(i) == OutputPath(parts[i], args[1].no_part_label)

\* C12: in worker-pool mode the process ends only when every submitted task has
\* finished, each having run its command exactly once whether or not another
\* task failed before it started, and with status 1 when a task failed; in
\* sequential mode a run that ends on a failure has run the commands of the
\* parts up to the failing one only, and nothing of any later part.
C12_PoolRunsAllSeqStopsAtFailure ==
    /\ (PoolMode /\ exit_status # None)
       => /\ Finished = DOMAIN task
          /\ Len(cmds) = Len(parts)
          /\ \A i \in DOMAIN parts :
                Cardinality({k \in DOMAIN cmds : cmds[k] = CmdOf(i)}) = 1
          /\ \A i \in DOMAIN task : task[i] = "ok" => FileOf(i) \in files
          /\ failed # {} => exit_status = Some(1)
    /\ (~PoolMode /\ pc = "exited" /\ failed # {})
       => /\ idx \in DOMAIN parts
          /\ failed = {parts[idx]}
          /\ cmds = [k \in 1..idx |-> CmdOf(k)]
          /\ files = {FileOf(k) : k \in 1..(idx - 1)}
          /\ \A j \in (idx + 1)..Len(parts) :
                /\ \A k \in DOMAIN cmds : cmds[k] # CmdOf(j)
                /\ FileOf(j) \notin files

\* A worker-pool run that ended with status 1 in which a task that had not
\* started when the failure was observed still ran and wrote its file.
C12_Witness ==
    /\ PoolMode /\ pc = "exited" /\ exit_status = Some(1)
    /\ \E i \in late : task[i] = "ok" /\ FileOf(i) \in files

\* A sequential run over three parts that ended on the failure of the first.
C12_SeqWitness ==
    /\ ~PoolMode /\ pc = "exited" /\ exit_status = Some(1)
    /\ Len(parts) = 3 /\ idx = 1 /\ failed = {parts[1]}

\* ------------------------------------------- Matcher/Uploader: pure functions

FOLDER == "thumbs"

Exts == {<<"j", "p", "g">>, <<"j", "p", "e", "g">>, <<"p", "n", "g">>}

\* thumb_pattern.match(name): r"thumbnail_part_(\d+)\.(jpg|jpeg|png)$" under
\* re.IGNORECASE, anchored at the start of the name by match() and at its end
\* by $. The value is None or Some(group 1).
ThumbMatch(name) ==
    LET l == Lower(name)
        n == Len(ThumbPrefix)
        D == {d \in 1..Len(l) :
                /\ Len(l) >= n + d + 2
                /\ SubSeq(l, 1, n) = ThumbPrefix
                /\ IsDigits(SubSeq(l, n + 1, n + d))
                /\ l[n + d + 1] = "."
                /\ SubSeq(l, n + d + 2, Len(l)) \in Exts}
    IN  IF D = {} THEN None
        ELSE LET d == CHOOSE d \in D : TRUE IN Some(SubSeq(name, n + 1, n + d))

PartWord == <<"p", "a", "r", "t", " ">>

\* video_pattern.search(title): r"Part (\d+)$" under re.IGNORECASE. The digits
\* run to the end of the title and "part " stands right before them. The value
\* is None or Some(group 1).
TitleMatch(title) ==
    LET l == Lower(title)
        n == Len(l)
        D == {d \in 1..n :
                /\ n >= d + Len(PartWord)
                /\ IsDigits(SubSeq(l, n - d + 1, n))
                /\ SubSeq(l, n - d - Len(PartWord) + 1, n - d) = PartWord}
    IN  IF D = {} THEN None
        ELSE LET d == CHOOSE d \in D : TRUE IN Some(SubSeq(title, n - d + 1, n))

\* The loop of lines 46-50: a later file of the same part number replaces an
\* earlier one.
RECURSIVE ScanFolder(_)
ScanFolder(listing) ==
    IF Len(listing) = 0 THEN <<>>
    ELSE LET f    == listing[Len(listing)]
             rest == ScanFolder(SubSeq(listing, 1, Len(listing) - 1))
             mt   == ThumbMatch(f)
         IN  IF mt = None THEN rest
             ELSE LET k == ParseInt(mt[1])
                  IN  [x \in (DOMAIN rest) \cup {k} |->
                          IF x = k THEN as_posix(FOLDER, f) ELSE rest[x]]

\* thumbnail_map.get(part_number)
MapGet(map, k) == IF k \in DOMAIN map THEN Some(map[k]) ELSE None

\* Faulty variant of MatchedPath: part number 0 is taken for "no part number".
MatchedPath_zero_is_none(map, title) ==
    LET mt == TitleMatch(title)
    IN  IF mt # None /\ ParseInt(mt[1]) # 0
        THEN IF TruthyObj(MapGet(map, ParseInt(mt[1])))
             THEN MapGet(map, ParseInt(mt[1]))
             ELSE None
        ELSE None

\* The body of the loop of lines 53-62 for one record: the new thumbnail_path.
MatchedPath(map, title) ==
    LET mt == TitleMatch(title)
    IN  IF mt # None
        THEN IF TruthyObj(MapGet(map, ParseInt(mt[1])))
             THEN MapGet(map, ParseInt(mt[1]))
             ELSE None
        ELSE None

\* The warning of lines 58-62 for one record, if any.
MatchWarning(map, title) ==
    LET mt == TitleMatch(title)
    IN  IF mt # None
        THEN IF MatchedPath(map, title) = None
             THEN <<LogRec("WARNING", "No thumbnail found for", None, Some(title))>>
             ELSE <<>>
        ELSE <<LogRec("WARNING", "does not contain a part number", None, Some(title))>>

RECURSIVE MatchWarnings(_, _)
MatchWarnings(map, vs) ==
    IF Len(vs) = 0 THEN <<>>
    ELSE MatchWarning(map, vs[1].title) \o MatchWarnings(map, Tail(vs))

\* match_thumbnails_to_videos: every record keeps its place and gets its
\* thumbnail_path.
match_thumbnails_to_videos(vs, listing) ==
    LET map == ScanFolder(listing)
    IN  [i \in 1..Len(vs) |->
            [vs[i] EXCEPT !.thumbnail_path = MatchedPath(map, vs[i].title)]]

filter_videos_by_min_part(vs, min_part) ==
    LET Keep(v) == /\ TitleMatch(v.title) # None
                   /\ ParseInt(TitleMatch(v.title)[1]) >= min_part
    IN  SelectSeq(vs, Keep)

filter_videos_by_part_range(vs, part_range) ==
    LET Keep(v) == /\ TitleMatch(v.title) # None
                   /\ part_range[1] <= ParseInt(TitleMatch(v.title)[1])
                   /\ ParseInt(TitleMatch(v.title)[1]) <= part_range[2]
    IN  SelectSeq(vs, Keep)

\* parse_part_range: "start-end" to (start, end) with start <= end; anything
\* else is an argparse.ArgumentTypeError.
parse_part_range(range_str) ==
    LET pieces == Split(range_str, "-")
    IN  IF /\ Len(pieces) = 2 /\ IsDigits(pieces[1]) /\ IsDigits(pieces[2])
           /\ ParseInt(pieces[1]) <= ParseInt(pieces[2])
        THEN [ok |-> TRUE, val |-> <<ParseInt(pieces[1]), ParseInt(pieces[2])>>]
        ELSE [ok |-> FALSE, val |-> <<>>]

\* Lines 133-137: the filter main applies.
ApplyFilters(a, vs) ==
    IF TruthyInt(a.min_part) THEN filter_videos_by_min_part(vs, a.min_part[1])
    ELSE IF TruthyObj(a.part_range) THEN filter_videos_by_part_range(vs, a.part_range[1])
    ELSE vs

\* ------------------------------------------------- Matcher/Uploader: inputs

\* Largest number of records in the enumerated record lists.
MaxVideos == 2

\* Titles: with a trailing part token in several spellings, and without one.
T_EpPart5 == <<"E", "p", " ", "P", "a", "r", "t", " ", "5">>
T_ep_part7 == <<"e", "p", " ", "p", "a", "r", "t", " ", "7">>
T_Intro == <<"I", "n", "t", "r", "o">>
T_Part0 == <<"P", "a", "r", "t", " ", "0">>
T_EpPART05 == <<"E", "p", " ", "P", "A", "R", "T", " ", "0", "5">>
T_Part5x == <<"P", "a", "r", "t", " ", "5", " ", "x">>
T_EpPart10 == <<"E", "p", " ", "P", "a", "r", "t", " ", "1", "0">>

Titles == {T_EpPart5, T_ep_part7, T_Intro, T_Part0, T_EpPART05, T_Part5x, T_EpPart10}

\* File names: matching the convention in several spellings, and not matching.
F_5png == <<"t", "h", "u", "m", "b", "n", "a", "i", "l", "_", "p", "a", "r", "t", "_", "5", ".", "p", "n", "g">>
F_05jpg == <<"t", "h", "u", "m", "b", "n", "a", "i", "l", "_", "p", "a", "r", "t", "_", "0", "5", ".", "j", "p", "g">>
F_0jpeg == <<"t", "h", "u", "m", "b", "n", "a", "i", "l", "_", "p", "a", "r", "t", "_", "0", ".", "j", "p", "e", "g">>
F_7UPPER == <<"T", "H", "U", "M", "B", "N", "A", "I", "L", "_", "P", "A", "R", "T", "_", "7", ".", "P", "N", "G">>
F_plain == <<"t", "h", "u", "m", "b", "n", "a", "i", "l", ".", "p", "n", "g">>
F_5bak == <<"t", "h", "u", "m", "b", "n", "a", "i", "l", "_", "p", "a", "r", "t", "_", "5", ".", "p", "n", "g", ".", "b", "a", "k">>
F_x7png == <<"x", "t", "h", "u", "m", "b", "n", "a", "i", "l", "_", "p", "a", "r", "t", "_", "7", ".", "p", "n", "g">>
F_10gif == <<"t", "h", "u", "m", "b", "n", "a", "i", "l", "_", "p", "a", "r", "t", "_", "1", "0", ".", "g", "i", "f">>

\* Directory listings, in iterdir() order.
Listings ==
    {<<>>,
     <<F_5png>>,
     <<F_5png, F_05jpg>>,
     <<F_05jpg, F_5png>>,
     <<F_0jpeg, F_7UPPER, F_plain>>,
     <<F_5bak, F_x7png, F_10gif>>}

\* The records of the JSON file: video_id is the position in the file.
VideoLists ==
    UNION {{[i \in 1..n |-> [video_id |-> i, title |-> ts[i]]] : ts \in [1..n -> Titles]}
           : n \in 0..MaxVideos}

PartRangeArgs ==
    {<<"5", "-", "7">>, <<"0", "-", "0">>, <<"7", "-", "5">>}

UpArgv ==
    [min_part      : {None, Some(0), Some(5)},
     part_range    : {None} \cup {Some(r) : r \in PartRangeArgs},
     update        : BOOLEAN,
     json_is_file  : BOOLEAN,
     folder_is_dir : BOOLEAN,
     videos_json   : VideoLists,
     listing       : Listings]

\* update_video_thumbnail's defaults.
DEFAULT_MAX_RETRIES == 3
DEFAULT_RETRY_DELAY == 2

InitUploader ==
    /\ argv \in UpArgv
    /\ pc = "parse_args"
    /\ ProcStart
    /\ CompIdle
    /\ DataIdle /\ UpIdle /\ RetryIdle /\ ExpIdle

\* ---------------------------------------- update_video_thumbnail: the retry loop

\* Faulty variant of RetriesLeft: the last attempt counts as having one more to come.
RetriesLeft_off_by_one(att, max_retries) == att <= max_retries

\* Line 97: attempt < max_retries.
RetriesLeft(att, max_retries) == att < max_retries

\* One iteration of the loop of lines 91-100: the upload is attempted; on a
\* failure the handler sleeps and goes on when attempts remain, and re-raises
\* on the last one.
R_Attempt(outcome) ==
    /\ UNCHANGED expVars
    /\ result = "running"
    /\ n_calls' = n_calls + 1
    /\ uploads' = Append(uploads, [video_id       |-> call[1].video_id,
                                   thumbnail_path |-> call[1].thumbnail_path,
                                   outcome        |-> outcome])
    /\ IF outcome = "ok"
       THEN /\ result' = "True"
            /\ UNCHANGED <<attempt, raised, n_delays, slept>>
       ELSE IF RetriesLeft(attempt, call[1].max_retries)
            THEN /\ n_delays' = n_delays + 1
                 /\ slept' = slept + call[1].retry_delay
                 /\ attempt' = attempt + 1
                 /\ UNCHANGED <<result, raised>>
            ELSE /\ result' = "raised"
                 /\ raised' = Some(attempt)
                 /\ UNCHANGED <<attempt, n_delays, slept>>
    /\ UNCHANGED <<procVars, compVars, dataVars, upVars, call>>

\* The call of update_video_thumbnail: the loop starts at attempt 1.
StartCall(c) ==
    /\ call' = Some(c)
    /\ attempt' = 1
    /\ result' = "running"
    /\ raised' = None
    /\ n_calls' = 0 /\ n_delays' = 0 /\ slept' = 0

\* ------------------------------------------------ Matcher/Uploader: actions

U_ParseArgs ==
    /\ UNCHANGED expVars
    /\ pc = "parse_args"
    /\ IF argv.part_range # None /\ ~parse_part_range(argv.part_range[1]).ok
       THEN /\ log' = Append(log, LogRec("ERROR", "usage", None, None))
            /\ Exit(2)
            /\ UNCHANGED args
       ELSE /\ args' = Some([min_part   |-> argv.min_part,
                             part_range |-> IF argv.part_range # None
                                            THEN Some(parse_part_range(argv.part_range[1]).val)
                                            ELSE None,
                             update     |-> argv.update])
            /\ pc' = "validate"
            /\ UNCHANGED <<log, exit_status>>
    /\ UNCHANGED <<argv, compVars, dataVars, upVars, retryVars>>

\* Lines 124-127: a missing file or folder raises ValueError, uncaught.
U_Validate ==
    /\ UNCHANGED expVars
    /\ pc = "validate"
    /\ IF ~argv.json_is_file \/ ~argv.folder_is_dir
       THEN /\ log' = Append(log, LogRec("ERROR", "Traceback: ValueError", None, None))
            /\ Exit(1)
       ELSE /\ pc' = "load"
            /\ UNCHANGED <<log, exit_status>>
    /\ UNCHANGED <<argv, args, compVars, dataVars, upVars, retryVars>>

\* Lines 130-131: Video(**v), thumbnail_path defaulting to None.
U_Load ==
    /\ UNCHANGED expVars
    /\ pc = "load"
    /\ videos' = [i \in 1..Len(argv.videos_json) |->
                     [video_id       |-> argv.videos_json[i].video_id,
                      title          |-> argv.videos_json[i].title,
                      thumbnail_path |-> None]]
    /\ pc' = "filter"
    /\ UNCHANGED <<argv, args, log, exit_status, json_out, compVars, upVars, retryVars>>

\* Lines 133-139.
U_Filter ==
    /\ UNCHANGED expVars
    /\ pc = "filter"
    /\ videos' = ApplyFilters(args[1], videos)
    /\ log' = Append(log, LogRec("INFO", "videos selected for processing", None, None))
    /\ pc' = "match"
    /\ UNCHANGED <<argv, args, exit_status, json_out, compVars, upVars, retryVars>>

\* Line 142.
U_Match ==
    /\ UNCHANGED expVars
    /\ pc = "match"
    /\ thumbnail_map' = ScanFolder(argv.listing)
    /\ videos' = match_thumbnails_to_videos(videos, argv.listing)
    /\ log' = log \o MatchWarnings(ScanFolder(argv.listing), videos)
    /\ pc' = "save"
    /\ UNCHANGED <<argv, args, exit_status, json_out, vi, log_msgs, compVars, retryVars>>

\* Lines 144-148.
U_Save ==
    /\ UNCHANGED expVars
    /\ pc = "save"
    /\ json_out' = Some(videos)
    /\ log' = Append(log, LogRec("INFO", "Updated JSON with thumbnails saved", None, None))
    /\ pc' = "update"
    /\ UNCHANGED <<argv, args, exit_status, videos, compVars, upVars, retryVars>>

\* Lines 166-167, and main returns None (status 0).
U_NoUpdate ==
    /\ UNCHANGED expVars
    /\ pc = "update"
    /\ ~args[1].update
    /\ log' = Append(log, LogRec("INFO", "Update flag not set", None, None))
    /\ Exit(0)
    /\ UNCHANGED <<argv, args, compVars, dataVars, upVars, retryVars>>

\* Lines 150-154: the OAuth flow either yields a service or raises, uncaught.
U_Auth(ok) ==
    /\ UNCHANGED expVars
    /\ pc = "update"
    /\ args[1].update
    /\ IF ok
       THEN /\ pc' = "loop"
            /\ UNCHANGED <<log, exit_status>>
       ELSE /\ log' = Append(log, LogRec("ERROR", "Traceback: auth", None, None))
            /\ Exit(1)
    /\ UNCHANGED <<argv, args, compVars, dataVars, upVars, retryVars>>

OutcomeMsg(kind, title) == [kind |-> kind, title |-> title]

\* Lines 155-163, the start of one iteration: a record with a thumbnail path
\* enters update_video_thumbnail with the defaults; one without is skipped.
U_LoopNext ==
    /\ UNCHANGED expVars
    /\ pc = "loop"
    /\ vi <= Len(videos)
    /\ IF TruthyObj(videos[vi].thumbnail_path)
       THEN /\ StartCall([video_id       |-> videos[vi].video_id,
                          thumbnail_path |-> videos[vi].thumbnail_path[1],
                          max_retries    |-> DEFAULT_MAX_RETRIES,
                          retry_delay    |-> DEFAULT_RETRY_DELAY])
            /\ pc' = "in_call"
            /\ UNCHANGED <<vi, log_msgs, uploads>>
       ELSE /\ log_msgs' = Append(log_msgs, OutcomeMsg("skipped", videos[vi].title))
            /\ vi' = vi + 1
            /\ UNCHANGED <<pc, retryVars>>
    /\ UNCHANGED <<argv, args, log, exit_status, compVars, dataVars, thumbnail_map>>

\* Faulty variant of U_CallDone: the exception of an exhausted call is not caught and
\* ends the process.
U_CallDone_abort ==
    /\ UNCHANGED expVars
    /\ pc = "in_call"
    /\ result \in {"True", "raised"}
    /\ IF result = "True"
       THEN /\ log_msgs' = Append(log_msgs, OutcomeMsg("updated", videos[vi].title))
            /\ vi' = vi + 1
            /\ pc' = "loop"
            /\ UNCHANGED <<log, exit_status>>
       ELSE /\ log' = Append(log, LogRec("ERROR", "Traceback: upload", None, None))
            /\ Exit(1)
            /\ UNCHANGED <<log_msgs, vi>>
    /\ call' = None /\ result' = "none" /\ attempt' = 0 /\ raised' = None
    /\ UNCHANGED <<argv, args, compVars, dataVars, thumbnail_map,
                   n_calls, n_delays, slept, uploads>>

\* Lines 157-161, the end of the call: True is a success, an exception is
\* caught and recorded, and the loop goes on either way.
U_CallDone ==
    /\ UNCHANGED expVars
    /\ pc = "in_call"
    /\ result \in {"True", "raised"}
    /\ log_msgs' = Append(log_msgs,
           OutcomeMsg(IF result = "True" THEN "updated" ELSE "failed", videos[vi].title))
    /\ vi' = vi + 1
    /\ pc' = "loop"
    /\ call' = None /\ result' = "none" /\ attempt' = 0 /\ raised' = None
    /\ UNCHANGED <<argv, args, log, exit_status, compVars, dataVars, thumbnail_map,
                   n_calls, n_delays, slept, uploads>>

RECURSIVE LogMsgs(_)
LogMsgs(ms) ==
    IF Len(ms) = 0 THEN <<>>
    ELSE <<LogRec("INFO", ms[1].kind, None, Some(ms[1].title))>> \o LogMsgs(Tail(ms))

\* Lines 164-165, and main returns None (status 0).
U_Finish ==
    /\ UNCHANGED expVars
    /\ pc = "loop"
    /\ vi > Len(videos)
    /\ log' = log \o LogMsgs(log_msgs)
    /\ Exit(0)
    /\ UNCHANGED <<argv, args, compVars, dataVars, upVars, retryVars>>

NextUploader ==
    \/ U_ParseArgs
    \/ U_Validate
    \/ U_Load
    \/ U_Filter
    \/ U_Match
    \/ U_Save
    \/ U_NoUpdate
    \/ \E ok \in BOOLEAN : U_Auth(ok)
    \/ U_LoopNext
    \/ \E o \in {"ok", "fail"} : pc = "in_call" /\ R_Attempt(o)
    \/ U_CallDone
    \/ U_Finish

SpecUploader == InitUploader /\ [][NextUploader]_vars

\* ------------------------------------- update_video_thumbnail on its own

\* Largest max_retries of the enumerated calls.
MaxRetries == 4

\* A call with any max_retries >= 1, against an upload that fails on its first
\* fail_first attempts and succeeds from then on.
RetryArgv ==
    [fail_first : 0..(MaxRetries + 1),
     call       : [video_id       : {1, 2},
                   thumbnail_path : {as_posix(FOLDER, F_5png)},
                   max_retries    : 1..MaxRetries,
                   retry_delay    : {0, DEFAULT_RETRY_DELAY}]]

InitRetry ==
    /\ argv \in RetryArgv
    /\ pc = "in_call"
    /\ ProcStart
    /\ CompIdle
    /\ DataIdle /\ UpIdle /\ ExpIdle
    /\ call = Some(argv.call)
    /\ attempt = 1
    /\ result = "running"
    /\ raised = None
    /\ n_calls = 0 /\ n_delays = 0 /\ slept = 0 /\ uploads = <<>>

NextRetry ==
    R_Attempt(IF n_calls < argv.fail_first THEN "fail" ELSE "ok")

SpecRetry == InitRetry /\ [][NextRetry]_vars

\* ------------------------------------------------ Matcher/Uploader: claims

\* C4: update_video_thumbnail with max_retries = M >= 1 against an upload that
\* fails on its first k attempts and then succeeds: with k < M it returns True
\* after exactly k+1 attempts and k delays; with k >= M it raises after exactly
\* M attempts and M-1 delays, the error raised being that of attempt M; and
\* while it runs it has made fewer than M attempts, all of them failures.
C4_RetryCounts ==
    LET M == argv.call.max_retries
        k == argv.fail_first
    IN  /\ result = "True"
           => k < M /\ n_calls = k + 1 /\ n_delays = k
        /\ result = "raised"
           => k >= M /\ n_calls = M /\ n_delays = M - 1 /\ raised = Some(M)
        /\ result = "running"
           => n_calls < M /\ n_calls <= k /\ n_delays = n_calls
        /\ slept = n_delays * argv.call.retry_delay
        /\ Len(uploads) = n_calls

\* max_retries 3, two failures and then a success: 3 attempts, 2 delays.
C4_Witness ==
    /\ argv.call.max_retries = 3 /\ argv.fail_first = 2
    /\ result = "True" /\ n_calls = 3 /\ n_delays = 2

\* The attempts made for the record with this video_id.
UploadsOf(id) == SelectSeq(uploads, LAMBDA u : u.video_id = id)

\* Entry i of log_msgs is the outcome of record i: skipped exactly when the
\* record has no thumbnail path (and then no upload was attempted for it),
\* failed exactly when all DEFAULT_MAX_RETRIES attempts failed, updated exactly
\* when its last attempt succeeded.
OutcomeOfRecord(i) ==
    LET v  == videos[i]
        us == UploadsOf(v.video_id)
    IN  /\ log_msgs[i].title = v.title
        /\ log_msgs[i].kind = "skipped"
           <=> v.thumbnail_path = None
        /\ v.thumbnail_path = None => Len(us) = 0
        /\ log_msgs[i].kind = "failed"
           <=> /\ Len(us) = DEFAULT_MAX_RETRIES
               /\ \A j \in DOMAIN us : us[j].outcome = "fail"
        /\ log_msgs[i].kind = "updated"
           <=> Len(us) > 0 /\ us[Len(us)].outcome = "ok"
        /\ \A j \in DOMAIN us : Some(us[j].thumbnail_path) = v.thumbnail_path

\* C5: in the --update loop the outcomes are one per processed record, in the
\* order of the records; a record that exhausts its retries is recorded as
\* failed and the loop goes on; once the loop has started the process ends
\* only with status 0 and an outcome for every record; no upload is attempted
\* for a record without a thumbnail path.
C5_OneOutcomePerRecord ==
    /\ pc \in {"loop", "in_call"}
       => /\ Len(log_msgs) = vi - 1
          /\ \A i \in DOMAIN log_msgs : OutcomeOfRecord(i)
    /\ (pc = "exited" /\ (uploads # <<>> \/ log_msgs # <<>>))
       => /\ exit_status = Some(0)
          /\ Len(log_msgs) = Len(videos)
          /\ \A i \in DOMAIN log_msgs : OutcomeOfRecord(i)
    /\ \A j \in DOMAIN uploads :
          \E i \in DOMAIN videos :
             /\ videos[i].video_id = uploads[j].video_id
             /\ videos[i].thumbnail_path = Some(uploads[j].thumbnail_path)

\* A finished loop whose first record failed all its attempts and whose second
\* record was then updated.
C5_Witness ==
    /\ pc = "exited" /\ exit_status = Some(0)
    /\ Len(log_msgs) = 2
    /\ log_msgs[1].kind = "failed"
    /\ log_msgs[2].kind = "updated"
    /\ Len(uploads) = DEFAULT_MAX_RETRIES + 1

\* The trailing part number of a title, if any.
PartOf(title) ==
    IF TitleMatch(title) = None THEN None ELSE Some(ParseInt(TitleMatch(title)[1]))

\* The records as loaded from the JSON file.
Loaded ==
    [i \in 1..Len(argv.videos_json) |->
        [video_id       |-> argv.videos_json[i].video_id,
         title          |-> argv.videos_json[i].title,
         thumbnail_path |-> None]]

KeepFrom(vs, lo) ==
    SelectSeq(vs, LAMBDA v : PartOf(v.title) # None /\ PartOf(v.title)[1] >= lo)

KeepWithin(vs, lo, hi) ==
    SelectSeq(vs, LAMBDA v : /\ PartOf(v.title) # None
                             /\ lo <= PartOf(v.title)[1] /\ PartOf(v.title)[1] <= hi)

OnlyMinPart == argv.min_part # None /\ argv.part_range = None
OnlyPartRange == argv.min_part = None /\ argv.part_range # None
NoFilter == argv.min_part = None /\ argv.part_range = None

\* C7: after filtering, with a minimum part M (any M >= 0) exactly the records
\* whose trailing part number is >= M are kept; with a range [s,e] exactly
\* those whose part number lies in it; records without a part number are
\* dropped by either filter; the order is kept; with no filter all proceed.
C7_FilterKeepsExactly ==
    pc = "match"
    => /\ OnlyMinPart => videos = KeepFrom(Loaded, argv.min_part[1])
       /\ OnlyPartRange
          => videos = KeepWithin(Loaded, args[1].part_range[1][1], args[1].part_range[1][2])
       /\ NoFilter => videos = Loaded

\* What the code does keep of C7: the same, for a minimum part M >= 1.
C7_FilterKeepsExactlyNonZero ==
    pc = "match"
    => /\ (OnlyMinPart /\ argv.min_part[1] >= 1)
          => videos = KeepFrom(Loaded, argv.min_part[1])
       /\ OnlyPartRange
          => videos = KeepWithin(Loaded, args[1].part_range[1][1], args[1].part_range[1][2])
       /\ NoFilter => videos = Loaded

\* The files of the listing the scan takes for part n, in listing order.
FilesOf(listing, n) ==
    SelectSeq(listing, LAMBDA f : ThumbMatch(f) # None /\ ParseInt(ThumbMatch(f)[1]) = n)

\* The path record v must get: the last scanned file of its part number.
ExpectedThumb(listing, v) ==
    IF PartOf(v.title) # None /\ Len(FilesOf(listing, PartOf(v.title)[1])) > 0
    THEN LET fs == FilesOf(listing, PartOf(v.title)[1])
         IN  Some(<<FOLDER, "/">> \o fs[Len(fs)])
    ELSE None

\* The warnings the matching step added to the log.
NewWarnings == SubSeq(log', Len(log) + 1, Len(log'))

\* C8: the matching step keeps the number and the order of the records and
\* their ids and titles; a record whose title ends with a part token N for
\* which the scan found a file gets that file's path (the last scanned one of
\* that number; any N >= 0, leading zeros ignored), every other record gets
\* None; exactly one warning is emitted per record left with None, in record
\* order, and none for the others.
C8_MatchSetsPaths ==
    [][pc = "match"
       => /\ Len(videos') = Len(videos)
          /\ \A i \in DOMAIN videos :
                /\ videos'[i].video_id = videos[i].video_id
                /\ videos'[i].title = videos[i].title
                /\ videos'[i].thumbnail_path = ExpectedThumb(argv.listing, videos[i])
          /\ LET unmatched == SelectSeq(videos', LAMBDA v : v.thumbnail_path = None)
             IN  /\ Len(NewWarnings) = Len(unmatched)
                 /\ \A k \in DOMAIN unmatched :
                       /\ NewWarnings[k].level = "WARNING"
                       /\ NewWarnings[k].text = Some(unmatched[k].title)]_vars

\* After matching: "Ep Part 5" has the path of thumbnail_part_05.jpg, scanned
\* after thumbnail_part_5.png, and "ep part 7" has none and one warning.
C8_Witness ==
    /\ pc = "save"
    /\ argv.listing = <<F_5png, F_05jpg>>
    /\ Len(videos) = 2
    /\ videos[1].title = T_EpPart5
    /\ videos[1].thumbnail_path = Some(<<FOLDER, "/">> \o F_05jpg)
    /\ videos[2].title = T_ep_part7
    /\ videos[2].thumbnail_path = None
    /\ Cardinality({k \in DOMAIN log : log[k].level = "WARNING"}) = 1

\* C9 (Matcher/Uploader half): --min-part together with --part-range is
\* rejected at once: the run never leaves argument parsing, ends with a
\* non-zero status, and filters, matches, writes and uploads nothing.
C9_UploaderExclusiveFlags ==
    (argv.min_part # None /\ argv.part_range # None)
    => /\ pc \in {"parse_args", "exited"}
       /\ pc = "exited" => exit_status = Some(2)
       /\ videos = <<>> /\ json_out = None /\ uploads = <<>>


\* ------------------------------------------------------- Playlist Exporter

\* maxResults of playlistItems().list, and the chunk length of the lookup.
MaxResults == 50
ChunkSize == 50

\* Largest length of the enumerated short playlists.
MaxItems == 3
\* The long playlists have MaxResults + 1 .. MaxResults + MaxExtra items.
MaxExtra == 1

\* Video ids are numbers; the short playlists draw theirs from VideoIds.
VideoIds == {1, 2}

\* Titles: the sentinel of a private item, the blank placeholder, and the
\* title the videos.list lookup returns for an id.
PRIVATE_VIDEO == <<"Private Video">>
BLANK == <<>>
RealTitle(id) == <<"Title of", id>>

\* The service: the playlist's video ids in order, and, for the videos of odd
\* and of even id, whether the playlist lists them as "Private Video" and
\* whether the lookup finds them.
ShortPlaylists == UNION {[1..n -> VideoIds] : n \in 0..MaxItems}

\* More than MaxResults items: all of different ids, all of one id, and two
\* ids in turn.
LongPlaylists ==
    UNION {{[i \in 1..(MaxResults + e) |-> i],
            [i \in 1..(MaxResults + e) |-> 1],
            [i \in 1..(MaxResults + e) |-> IF i % 2 = 1 THEN 1 ELSE 2]}
           : e \in 1..MaxExtra}

ExpArgv ==
    [playlist : ShortPlaylists \cup LongPlaylists,
     catalog  : [{0, 1} -> [private : BOOLEAN, found : BOOLEAN]]]

CatalogOf(env, id) == env.catalog[id % 2]

\* item["snippet"]["title"] of a playlist item.
ListedTitle(env, id) ==
    IF CatalogOf(env, id).private THEN PRIVATE_VIDEO ELSE RealTitle(id)

\* The number of pages of the playlist.
PageCount(env) == (Len(env.playlist) + MaxResults - 1) \div MaxResults

\* playlistItems().list(maxResults=50, pageToken=token): the items of the
\* page, and the token of the next page if there is one.
PlaylistPage(env, token) ==
    LET p     == IF token = None THEN 1 ELSE token[1]
        first == (p - 1) * MaxResults + 1
        last  == IF p * MaxResults < Len(env.playlist)
                 THEN p * MaxResults ELSE Len(env.playlist)
    IN  [items         |-> [k \in 1..(last - first + 1) |->
                               [videoId |-> env.playlist[first + k - 1],
                                title   |-> ListedTitle(env, env.playlist[first + k - 1])]],
         nextPageToken |-> IF p < PageCount(env) THEN Some(p + 1) ELSE None]

\* The loop of lines 55-61 over the items of a page: the records appended.
PageRecords(items) ==
    [k \in 1..Len(items) |->
        [video_id |-> items[k].videoId,
         title    |-> IF items[k].title = PRIVATE_VIDEO THEN BLANK ELSE items[k].title]]

\* The loop of lines 55-61 over the items of a page: the ids deferred.
PagePrivateIds(items) ==
    LET priv == SelectSeq(items, LAMBDA it : it.title = PRIVATE_VIDEO)
    IN  [k \in 1..Len(priv) |-> priv[k].videoId]

\* private_ids[i:i+50]
Chunk(ids, i) ==
    SubSeq(ids, i + 1, IF i + ChunkSize < Len(ids) THEN i + ChunkSize ELSE Len(ids))

\* videos().list(id=",".join(chunk_ids)): one item per requested id that the
\* service finds.
LookupItems(env, chunk_ids) ==
    LET found == SelectSeq(chunk_ids, LAMBDA id : CatalogOf(env, id).found)
    IN  [k \in 1..Len(found) |-> [id |-> found[k], title |-> RealTitle(found[k])]]

\* Line 77: next((v for v in videos if v.video_id == id), None): the index of
\* the FIRST record of that id, 0 when there is none.
FirstRecordOf(vs, id) ==
    LET hits == {k \in DOMAIN vs : vs[k].video_id = id}
    IN  IF hits = {} THEN 0 ELSE CHOOSE k \in hits : \A j \in hits : k <= j

\* The loop of lines 75-79 over the items of a lookup response: each item
\* replaces the title of the first record of its id, so a record ends with the
\* title of the last item that names it as that first record.
PatchAll(vs, items) ==
    [k \in DOMAIN vs |->
        LET js == {j \in DOMAIN items : FirstRecordOf(vs, items[j].id) = k}
        IN  IF js = {} THEN vs[k]
            ELSE LET j == CHOOSE j \in js : \A x \in js : x <= j
                 IN  [vs[k] EXCEPT !.title = items[j].title]]

InitExporter ==
    /\ argv \in ExpArgv
    /\ pc = "auth"
    /\ ProcStart
    /\ CompIdle
    /\ DataIdle /\ UpIdle /\ RetryIdle /\ ExpIdle

nonExpVars == <<compVars, upVars, retryVars>>

\* The except clause of main, lines 109-110: the error is logged, main returns
\* None and exit(None) ends the process with status 0.
CaughtInMain ==
    /\ log' = Append(log, LogRec("ERROR", "Error retrieving video IDs", None, None))
    /\ Exit(0)

\* Line 103: the OAuth flow, outside the try block.
E_Auth(ok) ==
    /\ pc = "auth"
    /\ IF ok
       THEN /\ pc' = "fetch"
            /\ UNCHANGED <<log, exit_status>>
       ELSE /\ log' = Append(log, LogRec("ERROR", "Traceback: auth", None, None))
            /\ Exit(1)
    /\ UNCHANGED <<argv, args, dataVars, expVars, nonExpVars>>

\* One iteration of the loop of lines 46-65: a page is requested; its items
\* are appended; the loop ends when the response carries no token.
E_FetchPage(ok) ==
    /\ pc = "fetch"
    /\ api_calls' = Append(api_calls, [api |-> "playlistItems", ok |-> ok])
    /\ IF ok
       THEN LET page == PlaylistPage(argv, next_page_token)
            IN  /\ videos' = videos \o PageRecords(page.items)
                /\ private_ids' = private_ids \o PagePrivateIds(page.items)
                /\ next_page_token' = page.nextPageToken
                /\ pc' = IF page.nextPageToken = None THEN "lookup" ELSE "fetch"
                /\ UNCHANGED <<log, exit_status>>
       ELSE /\ CaughtInMain
            /\ UNCHANGED <<videos, private_ids, next_page_token>>
    /\ UNCHANGED <<argv, args, json_out, chunk_i, nonExpVars>>

\* One iteration of the loop of lines 68-79: the titles of one chunk of
\* deferred ids are requested and patched in.
E_Lookup(ok) ==
    /\ pc = "lookup"
    /\ chunk_i < Len(private_ids)
    /\ api_calls' = Append(api_calls, [api |-> "videos", ok |-> ok])
    /\ IF ok
       THEN /\ videos' = PatchAll(videos, LookupItems(argv, Chunk(private_ids, chunk_i)))
            /\ chunk_i' = chunk_i + ChunkSize
            /\ UNCHANGED <<pc, log, exit_status>>
       ELSE /\ CaughtInMain
            /\ UNCHANGED <<videos, chunk_i>>
    /\ UNCHANGED <<argv, args, json_out, private_ids, next_page_token, nonExpVars>>

\* Lines 81 and 107-108: the list is returned, counted and saved; main returns
\* None (status 0).
E_Save ==
    /\ pc = "lookup"
    /\ chunk_i >= Len(private_ids)
    /\ json_out' = Some(videos)
    /\ log' = log \o <<LogRec("INFO", "Retrieved video IDs", None, None),
                       LogRec("INFO", "Video IDs saved", None, None)>>
    /\ Exit(0)
    /\ UNCHANGED <<argv, args, videos, expVars, nonExpVars>>

NextExporter ==
    \/ \E ok \in BOOLEAN : E_Auth(ok)
    \/ \E ok \in BOOLEAN : E_FetchPage(ok)
    \/ \E ok \in BOOLEAN : E_Lookup(ok)
    \/ E_Save

SpecExporter == InitExporter /\ [][NextExporter]_vars

\* ------------------------------------------------------- Exporter: claims

\* Playlist item i is listed as "Private Video" and the lookup finds its id.
PrivateAndFound(i) ==
    /\ CatalogOf(argv, argv.playlist[i]).private
    /\ CatalogOf(argv, argv.playlist[i]).found

\* C6: in the list saved by a run, every record made from an item listed as
\* "Private Video" whose id the lookup returned carries the title the lookup
\* returned for that id, not "Private Video"; also when an id occurs more than
\* once in the playlist and when more than 50 ids are deferred.
C6_PrivateTitlesResolved ==
    (pc = "exited" /\ json_out # None)
    => \A i \in DOMAIN argv.playlist :
          PrivateAndFound(i)
          => /\ json_out[1][i].title = RealTitle(argv.playlist[i])
             /\ json_out[1][i].title # PRIVATE_VIDEO

FirstOccurrence(i) == \A j \in 1..(i - 1) : argv.playlist[j] # argv.playlist[i]

\* What the code does keep of C6: the first record of each id is resolved, in
\* whichever chunk the id falls, and no record carries "Private Video".
C6_FirstOccurrenceResolved ==
    (pc = "exited" /\ json_out # None)
    => /\ Len(json_out[1]) = Len(argv.playlist)
       /\ \A i \in DOMAIN argv.playlist :
             /\ json_out[1][i].video_id = argv.playlist[i]
             /\ json_out[1][i].title # PRIVATE_VIDEO
             /\ (PrivateAndFound(i) /\ FirstOccurrence(i))
                => json_out[1][i].title = RealTitle(argv.playlist[i])
             /\ (PrivateAndFound(i) /\ ~FirstOccurrence(i))
                => json_out[1][i].title = BLANK

ApiFailed == \E k \in DOMAIN api_calls : ~api_calls[k].ok

\* C10: when a playlist page fetch or a batched lookup fails, the failure is
\* logged, no JSON file is written and the process ends with a non-zero
\* status; status 0 occurs only when the whole list was retrieved and written.
C10_ApiFailureExitsNonZero ==
    pc = "exited"
    => /\ ApiFailed
          => /\ \E k \in DOMAIN log : log[k].level = "ERROR"
             /\ json_out = None
             /\ exit_status # Some(0)
       /\ exit_status = Some(0)
          => /\ json_out # None
             /\ Len(json_out[1]) = Len(argv.playlist)

\* What the code does keep of C10: a failed API call is logged, ends the run
\* at once (it is the last call made) and leaves no JSON file.
C10_ApiFailureLoggedNoFile ==
    ApiFailed
    => /\ pc = "exited"
       /\ \E k \in DOMAIN log : log[k].msg = "Error retrieving video IDs"
       /\ json_out = None
       /\ ~api_calls[Len(api_calls)].ok
       /\ \A k \in 1..(Len(api_calls) - 1) : api_calls[k].ok

\* C9 (Compositor half): two of --part / --range / --no-part-label together
\* end the run in argument parsing with status 2; nothing is rendered or
\* written.
C9_CompositorExclusiveFlags ==
    CompFlagsGiven(argv) >= 2
    => /\ pc \in {"parse_args", "exited"}
       /\ pc = "exited" => exit_status = Some(2)
       /\ cmds = <<>> /\ files = {} /\ task = <<>>

====
